---- MODULE Spec2Model ----
(***************************************************************************)
(* A model of send_mail.py: a one-shot script that parses eight required   *)
(* command-line flags, builds a multipart MIME message, and sends it over  *)
(* an SMTP_SSL session inside one try/except.                              *)
(*                                                                         *)
(* Strings are sequences of characters.  The alphabet is small: "a", "h",  *)
(* "u", "p", "x" and ":" stand for printable ASCII, the digits for         *)
(* themselves, SP for a space, CR and LF for the two line-break            *)
(* characters, and SG for a lone surrogate (what the interpreter puts in   *)
(* sys.argv for a byte that is not valid UTF-8).                           *)
(*                                                                         *)
(* The library calls the script makes (argparse, email.mime, smtplib) are  *)
(* modelled at their call sites by what they do with the script's values;  *)
(* whether a network step succeeds is the environment's choice.            *)
(***************************************************************************)
EXTENDS Integers, Sequences, FiniteSets, TLC

VARIABLES
    argv,        \* the command line: flag -> <<>> (not given) or <<value>>
    pc,          \* the statement the script is at
    args,        \* the namespace parse_args returned
    msg,         \* the MIMEMultipart object (a record), <<>> before line 20
    session,     \* the SMTP_SSL object: "none", "unconnected", "open", "quit"
    connOpened,  \* whether an SSL connection was ever established
    calls,       \* the smtplib calls made so far, in order
    outcome,     \* per smtplib call: "pending", "ok" or "raised"
    exc,         \* the exception being handled, "" when none
    mailbox,     \* what the server accepted: envelope and message data
    stderr,      \* lines written to standard error
    stdout,      \* lines written to standard output
    exitStatus,  \* <<>> while running, <<code>> once the process has exited
    builds       \* serialisations of repeated constructions (SpecBuild only)

vars == <<argv, pc, args, msg, session, connOpened, calls, outcome, exc,
          mailbox, stderr, stdout, exitStatus, builds>>

(***************************************************************************)
(* Bounds                                                                  *)
(***************************************************************************)
\* how many distinct boundary tokens the MIME generator may draw
MaxBoundary == 2
\* how many times SpecBuild constructs the envelope from the same input
MaxBuilds == 2

(***************************************************************************)
(* Characters and strings                                                  *)
(***************************************************************************)
SP == " "
CR == "CR"
LF == "LF"
SG == "SG"

DigitChars == <<"0", "1", "2", "3", "4", "5", "6", "7", "8", "9">>

Digits == {DigitChars[i] : i \in DOMAIN DigitChars}

DigitVal(c) == (CHOOSE i \in DOMAIN DigitChars : DigitChars[i] = c) - 1

\* int(string) of line 10 accepts it (for strings of digits and letters)
IsInt(s) == Len(s) > 0 /\ \A i \in 1..Len(s) : s[i] \in Digits

RECURSIVE ToInt(_)
ToInt(s) ==
    IF s = <<>> THEN 0
    ELSE 10 * ToInt(SubSeq(s, 1, Len(s) - 1)) + DigitVal(s[Len(s)])

IsBreak(c) == c \in {CR, LF}

HasBreak(s) == \E i \in 1..Len(s) : IsBreak(s[i])

\* str.splitlines / re.split(r'\r\n|\r|\n'): CR LF, CR and LF each end a line;
\* a trailing break leaves a last empty line.
RECURSIVE SplitLines(_)
SplitLines(s) ==
    IF ~HasBreak(s) THEN <<s>>
    ELSE LET i == CHOOSE i \in 1..Len(s) :
                      IsBreak(s[i]) /\ \A j \in 1..(i - 1) : ~IsBreak(s[j])
             n == IF s[i] = CR /\ i < Len(s) /\ s[i + 1] = LF THEN i + 2 ELSE i + 1
         IN  <<SubSeq(s, 1, i - 1)>> \o SplitLines(SubSeq(s, n, Len(s)))

(***************************************************************************)
(* The command line                                                        *)
(***************************************************************************)
Flags == {"smtp_server", "smtp_port", "smtp_user", "smtp_password",
          "from_email", "to_email", "subject", "body"}

ServerValues == {<<>>, <<"h">>}

PortValues == {<<>>, <<"x">>, <<"4", "6", "5">>}

AddrValues == {<<>>, <<"a">>}

SubjectValues == {<<>>, <<"a">>, <<SP, "a">>, <<"a", LF, "a">>, <<"a", LF, "a", ":">>}

BodyValues == {<<>>, <<"a">>, <<"a", CR, "a">>, <<"a", LF>>, <<SG>>}

\* a flag is not given, or given once with a value
Occ(S) == {<<>>} \cup {<<v>> : v \in S}

Argvs ==
    { [smtp_server |-> s, smtp_port |-> p, smtp_user |-> u, smtp_password |-> w,
       from_email |-> f, to_email |-> t, subject |-> j, body |-> b] :
        s \in Occ(ServerValues), p \in Occ(PortValues),
        u \in Occ({<<"u">>}), w \in Occ({<<"p">>}),
        f \in Occ(AddrValues), t \in Occ(AddrValues),
        j \in Occ(SubjectValues), b \in Occ(BodyValues) }

(***************************************************************************)
(* Lines 8-17: the argument parser                                         *)
(***************************************************************************)
Given(a, f) == a[f] # <<>>

\* a faulty variant: --body declared without required=True
MissingRequiredExceptBody(a) == \E f \in Flags \ {"body"} : ~Given(a, f)

\* a faulty variant: only the four connection flags declared required
MissingRequiredConnectionOnly(a) ==
    \E f \in {"smtp_server", "smtp_port", "smtp_user", "smtp_password"} : ~Given(a, f)

\* required=True on every flag (lines 9-16)
MissingRequired(a) == \E f \in Flags : ~Given(a, f)

\* type=int on --smtp_port (line 10)
InvalidPort(a) == Given(a, "smtp_port") /\ ~IsInt(a["smtp_port"][1])

\* parser.error: the usage message and exit status 2
ParseError(a) == MissingRequired(a) \/ InvalidPort(a)

ArgValue(a, f) == IF Given(a, f) THEN a[f][1] ELSE <<>>

\* the namespace of line 17
parse_args(a) ==
    [smtp_server |-> ArgValue(a, "smtp_server"),
     smtp_port |-> IF Given(a, "smtp_port") /\ IsInt(a["smtp_port"][1])
                   THEN ToInt(a["smtp_port"][1]) ELSE 0,
     smtp_user |-> ArgValue(a, "smtp_user"),
     smtp_password |-> ArgValue(a, "smtp_password"),
     from_email |-> ArgValue(a, "from_email"),
     to_email |-> ArgValue(a, "to_email"),
     subject |-> ArgValue(a, "subject"),
     body |-> ArgValue(a, "body")]

NoArgs == parse_args([f \in Flags |-> <<>>])

(***************************************************************************)
(* Lines 20-24: the message                                                *)
(***************************************************************************)
\* MIMEText(text, 'plain'): us-ascii when the text encodes as ASCII, else
\* utf-8, and text.encode('utf-8') raises UnicodeEncodeError on a surrogate.
MIMETextRaises(body) == \E i \in 1..Len(body) : body[i] = SG

MIMEText(body) == [ctype |-> "text/plain", payload |-> body]

\* a faulty variant: the From and To headers set from each other's argument
MIMEMultipartSwapped(a) ==
    [headers |-> << [name |-> "From", value |-> a.to_email],
                    [name |-> "To", value |-> a.from_email],
                    [name |-> "Subject", value |-> a.subject] >>,
     parts |-> << MIMEText(a.body) >>]

\* a faulty variant: a header stamped with a value that changes from one construction
\* to the next (a Date or Message-ID)
MIMEMultipartStamped(a) ==
    [headers |-> << [name |-> "From", value |-> a.from_email],
                    [name |-> "To", value |-> a.to_email],
                    [name |-> "Subject", value |-> a.subject],
                    [name |-> "Date", value |-> <<DigitChars[Len(builds) + 1]>>] >>,
     parts |-> << MIMEText(a.body) >>]

\* msg = MIMEMultipart(); msg['From'] = ...; msg.attach(...)
MIMEMultipart(a) ==
    [headers |-> << [name |-> "From", value |-> a.from_email],
                    [name |-> "To", value |-> a.to_email],
                    [name |-> "Subject", value |-> a.subject] >>,
     parts |-> << MIMEText(a.body) >>]

(***************************************************************************)
(* Line 30: msg.as_string()                                                *)
(* The wire text is a sequence of lines.  A line is a header line          *)
(* "name: text", a raw line, or a multipart delimiter; b is the boundary   *)
(* token the line carries (0: none).                                       *)
(***************************************************************************)
Boundaries == 1..MaxBoundary

Line(k, name, text, b) == [k |-> k, name |-> name, text |-> text, b |-> b]

Hdr(name, text) == Line("hdr", name, text, 0)

Raw(text) == Line("raw", "", text, 0)

Blank == Raw(<<>>)

NonEmpty(l) == l # <<>>

\* Header.encode: the value's lines, empty lines after the first dropped
HeaderLines(v) ==
    LET ls == SplitLines(v) IN <<Head(ls)>> \o SelectSeq(Tail(ls), NonEmpty)

\* the generator writes "name: " and the value's lines
WriteHeader(h) ==
    LET ls == HeaderLines(h.value)
    IN  <<Hdr(h.name, Head(ls))>> \o [i \in 1..(Len(ls) - 1) |-> Raw(ls[i + 1])]

\* email.header's _embedded_header, \n[^ \t]+: , a later line that starts
\* like a header field
LooksLikeHeader(l) ==
    \E k \in 2..Len(l) : l[k] = ":" /\ \A j \in 1..(k - 1) : l[j] # SP

EmbeddedHeader(v) ==
    LET ls == HeaderLines(v) IN \E i \in 2..Len(ls) : LooksLikeHeader(ls[i])

\* a line break not followed by whitespace (what verify_generated_headers
\* of newer library versions refuses to write)
UnfoldedBreak(v) ==
    LET ls == HeaderLines(v) IN \E i \in 2..Len(ls) : ls[i][1] # SP

\* as_string raises HeaderParseError (always) or HeaderWriteError (strict
\* libraries); a raw, unfolded break is written by the others
as_string_raises(m, strict) ==
    \E i \in 1..Len(m.headers) :
        \/ EmbeddedHeader(m.headers[i].value)
        \/ strict /\ UnfoldedBreak(m.headers[i].value)

RECURSIVE Concat(_)
Concat(ss) == IF ss = <<>> THEN <<>> ELSE Head(ss) \o Concat(Tail(ss))

WritePart(p, b) ==
    << Line("delim", "", <<>>, b),
       Hdr("Content-Type", <<p.ctype>>),
       Hdr("MIME-Version", <<"1.0">>),
       Hdr("Content-Transfer-Encoding", <<"7bit">>),
       Blank >>
    \o LET ls == SplitLines(p.payload) IN [i \in 1..Len(ls) |-> Raw(ls[i])]

\* the serialised message, with the boundary b the generator drew
as_string(m, b) ==
    << Line("hdr", "Content-Type", <<"multipart/mixed">>, b),
       Hdr("MIME-Version", <<"1.0">>) >>
    \o Concat([i \in 1..Len(m.headers) |-> WriteHeader(m.headers[i])])
    \o <<Blank>>
    \o Concat([i \in 1..Len(m.parts) |-> WritePart(m.parts[i], b)])
    \o << Line("close", "", <<>>, b) >>

(***************************************************************************)
(* Lines 27-33: the try block and its handler                              *)
(***************************************************************************)
Steps == <<"SMTP_SSL", "login", "sendmail", "quit">>

StepSet == {Steps[i] : i \in DOMAIN Steps}

\* a faulty variant: the exception is dropped and the next statement runs
AfterRaiseContinue(next) == next

\* a faulty variant: the failed run starts the session over
AfterRaiseRetry(next) == "connect"

\* where control goes when a statement of the try block raises (line 32)
AfterRaise(next) == "except"

\* a statement of the try block raises e
Raise(step, e, next) ==
    /\ outcome' = IF step \in StepSet THEN [outcome EXCEPT ![step] = "raised"]
                  ELSE outcome
    /\ exc' = e
    /\ pc' = AfterRaise(next)

\* a statement of the try block returns
Return(step, next) ==
    /\ outcome' = [outcome EXCEPT ![step] = "ok"]
    /\ exc' = exc
    /\ pc' = next

\* line 17: args = parser.parse_args()
Parse ==
    /\ pc = "parse"
    /\ IF ParseError(argv)
       THEN /\ stderr' = stderr \o << <<"usage:", "">>, <<"error:", "argument">> >>
            /\ exitStatus' = <<2>>
            /\ pc' = "done"
            /\ args' = args
       ELSE /\ args' = parse_args(argv)
            /\ pc' = "build"
            /\ UNCHANGED <<stderr, exitStatus>>
    /\ UNCHANGED <<argv, msg, session, connOpened, calls, outcome, exc, mailbox,
                   stdout, builds>>

\* lines 20-24, outside the try block: an exception here is not caught
Build ==
    /\ pc = "build"
    /\ IF MIMETextRaises(args.body)
       THEN /\ stderr' = stderr \o << <<"Traceback", "">>,
                                      <<"UnicodeEncodeError:", "surrogates not allowed">> >>
            /\ exitStatus' = <<1>>
            /\ pc' = "done"
            /\ msg' = msg
       ELSE /\ msg' = <<MIMEMultipart(args)>>
            /\ pc' = "connect"
            /\ UNCHANGED <<stderr, exitStatus>>
    /\ UNCHANGED <<argv, args, session, connOpened, calls, outcome, exc, mailbox,
                   stdout, builds>>

\* line 28: smtplib.SMTP_SSL(host, port) connects only when host is not
\* empty; with an empty host it returns an unconnected object.
Connect ==
    /\ pc = "connect"
    /\ calls' = Append(calls, "SMTP_SSL")
    /\ IF args.smtp_server = <<>>
       THEN /\ session' = "unconnected"
            /\ connOpened' = connOpened
            /\ Return("SMTP_SSL", "login")
       ELSE \E ok \in BOOLEAN :
                IF ok
                THEN /\ session' = "open"
                     /\ connOpened' = TRUE
                     /\ Return("SMTP_SSL", "login")
                ELSE /\ session' = session
                     /\ connOpened' = connOpened
                     /\ Raise("SMTP_SSL", "OSError", "login")
    /\ UNCHANGED <<argv, args, msg, mailbox, stderr, stdout, exitStatus, builds>>

\* line 29: server.login(user, password); on an unconnected object it
\* raises SMTPServerDisconnected before anything is sent
Login ==
    /\ pc = "login"
    /\ calls' = Append(calls, "login")
    /\ \E ok \in BOOLEAN :
           IF ok /\ session = "open"
           THEN Return("login", "sendmail")
           ELSE Raise("login",
                      IF session = "open" THEN "SMTPAuthenticationError"
                      ELSE "SMTPServerDisconnected", "sendmail")
    /\ UNCHANGED <<argv, args, msg, session, connOpened, mailbox, stderr, stdout,
                   exitStatus, builds>>

\* line 30: server.sendmail(from_email, to_email, msg.as_string()); the
\* argument is evaluated first, and sendmail is not called when it raises.
\* sendmail can raise after the server accepted the data (the reply is lost).
SendMail ==
    /\ pc = "sendmail"
    /\ \E strict \in BOOLEAN, b \in Boundaries, ok \in BOOLEAN :
           IF as_string_raises(msg[1], strict)
           THEN /\ calls' = calls
                /\ mailbox' = mailbox
                /\ Raise("as_string", "HeaderParseError", "quit")
           ELSE /\ calls' = Append(calls, "sendmail")
                /\ IF ok
                   THEN /\ mailbox' = Append(mailbox,
                                [mail_from |-> args.from_email,
                                 rcpt_to |-> args.to_email,
                                 data |-> as_string(msg[1], b)])
                        /\ Return("sendmail", "quit")
                   ELSE /\ \E accepted \in BOOLEAN :
                               mailbox' = IF accepted
                                          THEN Append(mailbox,
                                                   [mail_from |-> args.from_email,
                                                    rcpt_to |-> args.to_email,
                                                    data |-> as_string(msg[1], b)])
                                          ELSE mailbox
                        /\ Raise("sendmail", "SMTPException", "quit")
    /\ UNCHANGED <<argv, args, msg, session, connOpened, stderr, stdout,
                   exitStatus, builds>>

\* line 31: server.quit()
Quit ==
    /\ pc = "quit"
    /\ calls' = Append(calls, "quit")
    /\ \E ok \in BOOLEAN :
           IF ok
           THEN /\ session' = "quit"
                /\ Return("quit", "end")
           ELSE /\ session' = session
                /\ Raise("quit", "SMTPServerDisconnected", "end")
    /\ UNCHANGED <<argv, args, msg, connOpened, mailbox, stderr, stdout,
                   exitStatus, builds>>

\* a faulty variant: print without file=sys.stderr
PrintFailureStdout ==
    /\ stdout' = Append(stdout, <<"Failed to send email:", exc>>)
    /\ stderr' = stderr

\* line 33: the handler's one statement
PrintFailure ==
    /\ stderr' = Append(stderr, <<"Failed to send email:", exc>>)
    /\ stdout' = stdout

\* lines 32-33: except Exception as e: print(f"Failed to send email: {e}",
\* file=sys.stderr); nothing is raised again
Except ==
    /\ pc = "except"
    /\ PrintFailure
    /\ exc' = ""
    /\ pc' = "end"
    /\ UNCHANGED <<argv, args, msg, session, connOpened, calls, outcome, mailbox,
                   exitStatus, builds>>

\* the end of the script: the interpreter exits with status 0
Exit ==
    /\ pc = "end"
    /\ exitStatus' = <<0>>
    /\ pc' = "done"
    /\ UNCHANGED <<argv, args, msg, session, connOpened, calls, outcome, exc,
                   mailbox, stderr, stdout, builds>>

Init ==
    /\ argv \in Argvs
    /\ pc = "parse"
    /\ args = NoArgs
    /\ msg = <<>>
    /\ session = "none"
    /\ connOpened = FALSE
    /\ calls = <<>>
    /\ outcome = [s \in StepSet |-> "pending"]
    /\ exc = ""
    /\ mailbox = <<>>
    /\ stderr = <<>>
    /\ stdout = <<>>
    /\ exitStatus = <<>>
    /\ builds = <<>>

Next == Parse \/ Build \/ Connect \/ Login \/ SendMail \/ Quit \/ Except \/ Exit

Spec == Init /\ [][Next]_vars

(***************************************************************************)
(* Repeated construction: the envelope is built and serialised MaxBuilds   *)
(* times from one parsed configuration (lines 20-24 and msg.as_string()).  *)
(* Each construction is a fresh MIMEMultipart, so each serialisation draws *)
(* its own boundary.                                                       *)
(***************************************************************************)
InitBuild ==
    /\ argv \in {a \in Argvs : ~ParseError(a)}
    /\ pc = "build"
    /\ args = parse_args(argv)
    /\ msg = <<>>
    /\ session = "none"
    /\ connOpened = FALSE
    /\ calls = <<>>
    /\ outcome = [s \in StepSet |-> "pending"]
    /\ exc = ""
    /\ mailbox = <<>>
    /\ stderr = <<>>
    /\ stdout = <<>>
    /\ exitStatus = <<>>
    /\ builds = <<>>

BuildEnvelope ==
    /\ Len(builds) < MaxBuilds
    /\ ~MIMETextRaises(args.body)
    /\ \E strict \in BOOLEAN, b \in Boundaries :
           /\ ~as_string_raises(MIMEMultipart(args), strict)
           /\ builds' = Append(builds, [boundary |-> b,
                                        text |-> as_string(MIMEMultipart(args), b)])
    /\ UNCHANGED <<argv, pc, args, msg, session, connOpened, calls, outcome, exc,
                   mailbox, stderr, stdout, exitStatus>>

NextBuild == BuildEnvelope

SpecBuild == InitBuild /\ [][NextBuild]_vars

(***************************************************************************)
(* The receiving side: how a server reads the message data it accepted.    *)
(***************************************************************************)
RECURSIVE lstrip(_)
lstrip(s) == IF s # <<>> /\ Head(s) = SP THEN lstrip(Tail(s)) ELSE s

\* the header block: header lines, continuation lines (leading whitespace)
\* folded into the header before them; it ends at a blank line, or at the
\* first line that is neither (which then starts the body)
RECURSIVE ReadHeaders(_, _)
ReadHeaders(lines, acc) ==
    IF lines = <<>> THEN [headers |-> acc, rest |-> <<>>]
    ELSE LET l == Head(lines) IN
         IF l.k = "hdr"
         THEN ReadHeaders(Tail(lines),
                          Append(acc, [name |-> l.name, value |-> lstrip(l.text), b |-> l.b]))
         ELSE IF l.k = "raw" /\ l.text # <<>> /\ Head(l.text) = SP /\ acc # <<>>
         THEN ReadHeaders(Tail(lines),
                          [acc EXCEPT ![Len(acc)].value = @ \o <<LF>> \o l.text])
         ELSE IF l = Blank
         THEN [headers |-> acc, rest |-> Tail(lines)]
         ELSE [headers |-> acc, rest |-> lines]

HeaderValues(data, name) ==
    LET hs == ReadHeaders(data, <<>>).headers
    IN  {hs[i].value : i \in {k \in DOMAIN hs : hs[k].name = name}}

\* the lines of each body part: between "--b" delimiters, up to "--b--"
RECURSIVE ReadParts(_, _, _, _)
ReadParts(lines, b, open, acc) ==
    LET shut == IF open = <<>> THEN acc ELSE Append(acc, open[1]) IN
    IF lines = <<>> THEN acc
    ELSE LET l == Head(lines) IN
         IF l.k = "delim" /\ l.b = b THEN ReadParts(Tail(lines), b, << <<>> >>, shut)
         ELSE IF l.k = "close" /\ l.b = b THEN shut
         ELSE ReadParts(Tail(lines), b,
                        IF open = <<>> THEN open ELSE <<Append(open[1], l)>>, acc)

RECURSIVE JoinLines(_)
JoinLines(ls) ==
    IF ls = <<>> THEN <<>>
    ELSE IF Len(ls) = 1 THEN ls[1].text
    ELSE ls[1].text \o <<LF>> \o JoinLines(Tail(ls))

ReceivedPart(pl) ==
    LET r == ReadHeaders(pl, <<>>)
    IN  [ctype |-> {r.headers[i].value : i \in {k \in DOMAIN r.headers :
                                                 r.headers[k].name = "Content-Type"}},
         payload |-> JoinLines(r.rest)]

ReceivedParts(data) ==
    LET r == ReadHeaders(data, <<>>)
        bs == {r.headers[i].b : i \in {k \in DOMAIN r.headers :
                                        r.headers[k].name = "Content-Type"}}
        ps == IF Cardinality(bs) = 1
              THEN ReadParts(r.rest, CHOOSE b \in bs : TRUE, <<>>, <<>>)
              ELSE <<>>
    IN  [i \in 1..Len(ps) |-> ReceivedPart(ps[i])]

\* line breaks normalised to LF
Normalised(s) == JoinLines([i \in 1..Len(SplitLines(s)) |-> Raw(SplitLines(s)[i])])

\* a header value the library writes, and a server reads back, unchanged
PlainHeader(v) == ~HasBreak(v) /\ (v = <<>> \/ Head(v) # SP)

(***************************************************************************)
(* Properties                                                              *)
(***************************************************************************)
MessageFlags == {"from_email", "to_email", "subject", "body"}

Supplied(f) == argv[f][1]

NotAnInteger(s) == s = <<>> \/ \E i \in 1..Len(s) : s[i] \notin Digits

\* a required flag is missing, or --smtp_port is not an integer
InvalidInvocation ==
    \/ \E f \in Flags : argv[f] = <<>>
    \/ argv["smtp_port"] # <<>> /\ NotAnInteger(argv["smtp_port"][1])

AllStepsOk == \A s \in StepSet : outcome[s] = "ok"

SomeStepRaised == \E s \in StepSet : outcome[s] = "raised"

Called(s) == \E i \in DOMAIN calls : calls[i] = s

TimesCalled(s) == Cardinality({i \in DOMAIN calls : calls[i] = s})

FailedLines == {i \in DOMAIN stderr : stderr[i][1] = "Failed to send email:"}

\* C1: an invocation whose argument parsing fails (a required flag missing,
\* or --smtp_port not an integer) never gets past the parser: no smtplib
\* call is made, no connection is opened, nothing reaches the server, and
\* the process exits with a non-zero status.
C1_UsageErrorNoNetwork ==
    InvalidInvocation =>
        /\ pc \in {"parse", "done"}
        /\ calls = <<>>
        /\ session = "none"
        /\ ~connOpened
        /\ mailbox = <<>>
        /\ pc = "done" => exitStatus # <<>> /\ exitStatus[1] # 0

C1_Witness ==
    /\ pc = "done"
    /\ \E f \in Flags : argv[f] = <<>> /\ \A g \in Flags \ {f} : argv[g] # <<>>
    /\ exitStatus = <<2>>
    /\ calls = <<>>

\* C2 (as claimed): whenever argument parsing succeeds, the process exits
\* with status 0, whatever happens afterwards.
C2_ExitZeroAfterParse ==
    (pc = "done" /\ ~InvalidInvocation) => exitStatus = <<0>>

\* C3: after a successful parse, a run in which a transport step failed has
\* written exactly one "Failed to send email:" line to standard error when
\* it exits; a run in which all four steps succeeded has written nothing
\* to standard error or standard output; and no run ever holds more than
\* one such line.
C3_OneDiagnosticLine ==
    /\ (pc = "done" /\ SomeStepRaised) =>
           Cardinality(FailedLines) = 1 /\ stdout = <<>>
    /\ (pc = "done" /\ AllStepsOk) => stderr = <<>> /\ stdout = <<>>
    /\ Cardinality(FailedLines) <= 1

C3_Witness ==
    /\ pc = "done"
    /\ outcome["login"] = "raised"
    /\ stderr = << <<"Failed to send email:", "SMTPAuthenticationError">> >>
    /\ exitStatus = <<0>>

\* what the server holds, against the values given on the command line
EnvelopeAsSupplied(m) ==
    m.mail_from = Supplied("from_email") /\ m.rcpt_to = Supplied("to_email")

HeadersAsSupplied(m) ==
    /\ HeaderValues(m.data, "From") = {Supplied("from_email")}
    /\ HeaderValues(m.data, "To") = {Supplied("to_email")}
    /\ HeaderValues(m.data, "Subject") = {Supplied("subject")}

OnePlainTextPart(m, body) ==
    LET ps == ReceivedParts(m.data)
    IN  Len(ps) = 1 /\ ps[1].ctype = {<<"text/plain">>} /\ ps[1].payload = body

\* C4 (as claimed): on the happy path the server receives exactly one
\* message whose From, To and Subject headers and whose body part equal
\* the supplied values verbatim, with the envelope sender and recipient
\* equal to from_email and to_email.
C4_HappyPathVerbatim ==
    (pc = "done" /\ AllStepsOk) =>
        /\ Len(mailbox) = 1
        /\ EnvelopeAsSupplied(mailbox[1])
        /\ HeadersAsSupplied(mailbox[1])
        /\ OnePlainTextPart(mailbox[1], Supplied("body"))

\* C4 (amended): on the happy path the server receives exactly one message,
\* sent with from_email and to_email as envelope sender and recipient; it
\* has a single text/plain part holding the body with every line break
\* (CR, LF, CR LF) normalised; and when from_email, to_email and subject
\* contain no line break and no leading space, its From, To and Subject
\* headers equal them.
C4_HappyPathNormalised ==
    (pc = "done" /\ AllStepsOk) =>
        /\ Len(mailbox) = 1
        /\ EnvelopeAsSupplied(mailbox[1])
        /\ OnePlainTextPart(mailbox[1], Normalised(Supplied("body")))
        /\ (\A f \in {"from_email", "to_email", "subject"} : PlainHeader(Supplied(f)))
               => HeadersAsSupplied(mailbox[1])
        /\ ~HasBreak(Supplied("body")) => OnePlainTextPart(mailbox[1], Supplied("body"))

C4_Witness ==
    /\ pc = "done"
    /\ AllStepsOk
    /\ Len(mailbox) = 1
    /\ Supplied("from_email") # Supplied("to_email")
    /\ Supplied("subject") = <<"a">>
    /\ Supplied("body") = <<"a", CR, "a">>
    /\ HeadersAsSupplied(mailbox[1])
    /\ OnePlainTextPart(mailbox[1], <<"a", LF, "a">>)

\* the text with its boundary tokens blanked
WithoutBoundary(text) == [i \in DOMAIN text |-> [text[i] EXCEPT !.b = 0]]

MessageField(f) ==
    CASE f = "from_email" -> msg[1].headers[1].value
      [] f = "to_email" -> msg[1].headers[2].value
      [] f = "subject" -> msg[1].headers[3].value
      [] f = "body" -> msg[1].parts[1].payload

\* C6 (as claimed): in every run that reaches message construction, the
\* sender address, recipient address, subject and body are all non-empty.
C6_FieldsNonEmpty ==
    (pc = "build" \/ msg # <<>>) => \A f \in MessageFlags : args[f] # <<>>

\* C6 (amended): in every run that reaches message construction, each of
\* the four message flags was given on the command line, and the message
\* holds exactly the value given, which may be the empty string.
C6_FieldsSupplied ==
    /\ (pc = "build" \/ msg # <<>>) =>
           \A f \in MessageFlags : argv[f] # <<>> /\ args[f] = Supplied(f)
    /\ msg # <<>> => \A f \in MessageFlags : MessageField(f) = Supplied(f)

C6_Witness ==
    /\ msg # <<>>
    /\ argv["subject"] = << <<>> >>
    /\ MessageField("subject") = <<>>
    /\ Called("SMTP_SSL")

IsPrefix(s, t) == Len(s) <= Len(t) /\ \A i \in DOMAIN s : s[i] = t[i]

\* C7 (as claimed): the calls are made in the order connect, login, send,
\* quit; login is attempted only after the connection was opened, the send
\* only after login succeeded, quit only after the send succeeded.
C7_OrderedAfterConnectionOpen ==
    /\ IsPrefix(calls, Steps)
    /\ Called("login") => outcome["SMTP_SSL"] = "ok" /\ connOpened
    /\ Called("sendmail") => outcome["login"] = "ok"
    /\ Called("quit") => outcome["sendmail"] = "ok"

\* C7 (amended): the calls are made in the order SMTP_SSL, login, sendmail,
\* quit, each only after the call before it returned without raising; the
\* connection is open when login is attempted provided --smtp_server is
\* not empty (with an empty server name SMTP_SSL returns without
\* connecting, and login is still attempted).
C7_OrderedAfterReturn ==
    /\ IsPrefix(calls, Steps)
    /\ Called("login") =>
           /\ outcome["SMTP_SSL"] = "ok"
           /\ Supplied("smtp_server") # <<>> => connOpened
    /\ Called("sendmail") => outcome["login"] = "ok" /\ connOpened
    /\ Called("quit") => outcome["sendmail"] = "ok"

C7_Witness ==
    /\ pc = "done"
    /\ calls = Steps
    /\ AllStepsOk
    /\ connOpened

\* C8: quit is issued only when connect, login and send all succeeded, and
\* a run in which they all succeeded issues it; a run that opened the
\* connection and then failed to log in or to send exits without having
\* issued quit, its session never terminated.
C8_QuitOnlyOnSuccess ==
    /\ Called("quit") =>
           \A s \in {"SMTP_SSL", "login", "sendmail"} : outcome[s] = "ok"
    /\ (pc = "done" /\ \A s \in {"SMTP_SSL", "login", "sendmail"} : outcome[s] = "ok")
           => Called("quit")
    /\ (pc = "done" /\ connOpened
           /\ (outcome["login"] # "ok" \/ outcome["sendmail"] # "ok"))
           => ~Called("quit") /\ session = "open"

C8_Witness ==
    /\ pc = "done"
    /\ connOpened
    /\ outcome["login"] = "ok"
    /\ outcome["sendmail"] = "raised"
    /\ ~Called("quit")
    /\ session = "open"
    /\ exitStatus = <<0>>

\* C9: in one run each of SMTP_SSL, login, sendmail and quit is called at
\* most once; every call but the last returned without raising, and once a
\* call has raised the run is in its handler or past it; at most one
\* message reaches the server.
C9_NoRetry ==
    /\ \A s \in StepSet : TimesCalled(s) <= 1
    /\ \A i \in DOMAIN calls : i < Len(calls) => outcome[calls[i]] = "ok"
    /\ SomeStepRaised => pc \in {"except", "end", "done"}
    /\ Len(mailbox) <= 1

C9_Witness ==
    /\ pc = "done"
    /\ outcome["SMTP_SSL"] = "raised"
    /\ calls = <<"SMTP_SSL">>
    /\ mailbox = <<>>

\* C10: a run that parsed its arguments and exits having written nothing
\* to standard error completed all four steps, and the server holds the
\* message; the converse fails: a run whose quit failed has written the
\* "Failed to send email:" line although the server holds the message.
C10_SilenceImpliesSent ==
    /\ (pc = "done" /\ ~InvalidInvocation /\ stderr = <<>>) =>
           AllStepsOk /\ Len(mailbox) = 1
    /\ (pc = "done" /\ outcome["quit"] = "raised") =>
           FailedLines # {} /\ Len(mailbox) = 1

C10_Witness ==
    /\ pc = "done"
    /\ outcome["quit"] = "raised"
    /\ Len(mailbox) = 1
    /\ Cardinality(FailedLines) = 1

C10_SilentRun ==
    /\ pc = "done"
    /\ stderr = <<>>
    /\ AllStepsOk
    /\ Len(mailbox) = 1

====
